---- MODULE Spec2Model ----
(***************************************************************************)
(* Model of ts_arithmetic_svc: the /calculate endpoint, its request        *)
(* validation, the four core calculator functions on decimal values, and   *)
(* the boundary exception handler.                                         *)
(*                                                                         *)
(* A decimal value is the triple Python's decimal.Decimal holds:           *)
(*   [sign |-> 0 or 1, digits |-> coefficient, exp |-> exponent]           *)
(* The coefficient is an unbounded integer in Python; here it is the       *)
(* sequence of its decimal digits, most significant first, without         *)
(* leading zeros (<<0>> for zero), so that 10^10 and 28-digit results are  *)
(* computed digit by digit and never overflow.                             *)
(***************************************************************************)
EXTENDS Integers, Sequences, FiniteSets, TLC

(***************************************************************************)
(* Unbounded naturals as digit sequences (Python int arithmetic on the     *)
(* coefficients).                                                          *)
(***************************************************************************)
\* drop leading zeros; zero is <<0>>
StripZeros(s) ==
    LET nz == {i \in 1..Len(s) : s[i] # 0}
    IN  IF nz = {} THEN <<0>>
        ELSE LET f == CHOOSE i \in nz : \A j \in nz : i <= j
             IN  SubSeq(s, f, Len(s))

Zeros(n) == IF n > 0 THEN [i \in 1..n |-> 0] ELSE <<>>

\* x * 10^n for a coefficient x (zero stays <<0>>)
ShiftLeft(x, n) == IF x = <<0>> THEN x ELSE x \o Zeros(n)

PadLeft(s, n) == IF Len(s) >= n THEN s ELSE Zeros(n - Len(s)) \o s

NatIsZero(x) == x = <<0>>

\* -1, 0, 1 as x <, =, > y
NatCmp(x, y) ==
    IF Len(x) # Len(y) THEN (IF Len(x) < Len(y) THEN -1 ELSE 1)
    ELSE LET D == {i \in 1..Len(x) : x[i] # y[i]}
         IN  IF D = {} THEN 0
             ELSE LET i == CHOOSE k \in D : \A j \in D : k <= j
                  IN  IF x[i] < y[i] THEN -1 ELSE 1

\* xs + ys for digit sequences of the same length n whose sum has n digits:
\* digit i receives a carry when some lower position generates one (digit
\* sum >= 10) and every position between propagates it (digit sum 9)
AddAligned(xs, ys, n) ==
    StripZeros([i \in 1..n |->
        (xs[i] + ys[i]
         + (IF \E j \in (i + 1)..n :
                   /\ xs[j] + ys[j] >= 10
                   /\ \A k \in (i + 1)..(j - 1) : xs[k] + ys[k] = 9
            THEN 1 ELSE 0)) % 10])

\* x + y
NatAdd(x, y) ==
    LET n == (IF Len(x) > Len(y) THEN Len(x) ELSE Len(y)) + 1
    IN  AddAligned(PadLeft(x, n), PadLeft(y, n), n)

\* x - ys for digit sequences of the same length n, x >= ys: digit i lends
\* when some lower position must borrow (x digit < y digit) and every
\* position between is a tie
SubAligned(x, ys, n) ==
    StripZeros([i \in 1..n |->
        (x[i] - ys[i]
         - (IF \E j \in (i + 1)..n :
                   /\ x[j] < ys[j]
                   /\ \A k \in (i + 1)..(j - 1) : x[k] = ys[k]
            THEN 1 ELSE 0) + 10) % 10])

\* x - y for x >= y
NatSub(x, y) == SubAligned(x, PadLeft(y, Len(x)), Len(x))

\* tab[d + 1] = d * x for the digits d, by doubling and addition
MulTable(x) ==
    LET x2 == NatAdd(x, x)
        x4 == NatAdd(x2, x2)
    IN  <<(<<0>>), x, x2, NatAdd(x2, x), x4, NatAdd(x4, x), NatAdd(x4, x2),
          NatAdd(x4, NatAdd(x2, x)), NatAdd(x4, x4),
          NatAdd(NatAdd(x4, x4), x)>>

\* x * y[lo..hi], the digit range split in halves
RECURSIVE MulRange(_, _, _, _)
MulRange(tab, y, lo, hi) ==
    IF lo = hi THEN tab[y[lo] + 1]
    ELSE LET mid   == (lo + hi) \div 2
             left  == ShiftLeft(MulRange(tab, y, lo, mid), hi - mid)
             right == MulRange(tab, y, mid + 1, hi)
         IN  IF Len(left) > 0 /\ Len(right) > 0 THEN NatAdd(left, right)
             ELSE <<>>

\* x * y with the multiples of x already computed
MulByTable(tab, y) == IF Len(tab) > 0 THEN MulRange(tab, y, 1, Len(y)) ELSE <<>>

NatMul(x, y) == MulByTable(MulTable(x), y)

\* one step of long division: the largest q in 0..9 with q*y <= r, and the
\* remainder r - q*y
QuotDigit(r, tab) ==
    LET q == CHOOSE k \in 0..9 :
                 /\ NatCmp(tab[k + 1], r) <= 0
                 /\ k < 9 => NatCmp(tab[k + 2], r) > 0
    IN  [q |-> <<q>>, r |-> NatSub(r, tab[q + 1])]

\* long division of the digits x[lo..hi] with incoming remainder rem, the
\* digit range split in halves; q has one digit per digit of the range
RECURSIVE DivRange(_, _, _, _, _)
DivRange(x, tab, lo, hi, rem) ==
    IF lo = hi THEN QuotDigit(StripZeros(Append(rem, x[lo])), tab)
    ELSE LET mid   == (lo + hi) \div 2
             left  == DivRange(x, tab, lo, mid, rem)
             lr    == left.r
             right == IF Len(lr) > 0 THEN DivRange(x, tab, mid + 1, hi, lr)
                      ELSE left
         IN  [q |-> left.q \o right.q, r |-> right.r]

\* divmod(x, y) with the multiples of y already computed
DivByTable(x, tab) ==
    LET d == IF Len(tab) > 0 THEN DivRange(x, tab, 1, Len(x), <<0>>)
             ELSE [q |-> <<0>>, r |-> <<0>>]
    IN  [q |-> StripZeros(d.q), r |-> d.r]

\* divmod(x, y) for y > 0
NatDivMod(x, y) == DivByTable(x, MulTable(y))

(***************************************************************************)
(* decimal.Decimal values and the context-rounded operations the           *)
(* calculator uses: a + b, a - b, a * b, a / b, abs(x), x > y, x == y.     *)
(* p is the context precision (decimal.getcontext().prec); the context     *)
(* rounding is the default ROUND_HALF_EVEN.                                *)
(***************************************************************************)
Dec(s, d, e) == [sign |-> s, digits |-> d, exp |-> e]

DecIsZero(x) == NatIsZero(x.digits)

MinInt(m, n) == IF m < n THEN m ELSE n
MaxInt(m, n) == IF m > n THEN m ELSE n

\* Decimal.adjusted(): the exponent of the most significant digit
Adjusted(x) == x.exp + Len(x.digits) - 1

\* seeded fault: the digits beyond the precision dropped, not rounded
RoundTruncating(digits, p) == SubSeq(digits, 1, p)

\* the rounding step of Decimal._fix under ROUND_HALF_EVEN: the p leading
\* digits, plus one when the discarded digits are above the half, or exactly
\* the half and the last kept digit is odd
RoundHalfEven(digits, p) ==
    LET kept == SubSeq(digits, 1, p)
        rest == SubSeq(digits, p + 1, Len(digits))
        half == rest[1] = 5 /\ \A i \in 2..Len(rest) : rest[i] = 0
    IN  IF (IF half THEN kept[p] % 2 = 1 ELSE rest[1] >= 5)
        THEN NatAdd(kept, <<1>>) ELSE kept

\* the rounded coefficient c at exponent e: a carry out of the p digits
\* drops the last digit and raises the exponent
FixCarry(sign, c, e, p) ==
    IF Len(c) > p THEN Dec(sign, SubSeq(c, 1, p), e + 1) ELSE Dec(sign, c, e)

\* Decimal._fix: round a result to at most p significant digits, half-even
Fix(x, p) ==
    IF DecIsZero(x) \/ Len(x.digits) <= p THEN x
    ELSE FixCarry(x.sign, RoundHalfEven(x.digits, p),
                  Len(x.digits) + x.exp - p, p)

\* Decimal.copy_negate
CopyNegate(x) == Dec(1 - x.sign, x.digits, x.exp)

\* Decimal._rescale to a lower or equal exponent e (pads with zeros)
RescaleDown(x, e) == Dec(x.sign, ShiftLeft(x.digits, x.exp - e), e)

\* the operand with the lower exponent (other), replaced by 1 at exponent e
\* when it lies entirely below e
Negligible(other, e) ==
    IF Len(other.digits) + other.exp - 1 < e THEN Dec(other.sign, <<1>>, e)
    ELSE other

\* the operand with the higher exponent (tmp) padded down to other's exponent
Align(tmp, other) ==
    <<Dec(tmp.sign, ShiftLeft(tmp.digits, tmp.exp - other.exp), other.exp),
      other>>

\* decimal._normalize for tmp.exp >= other.exp: an operand too small to
\* affect the p-digit result is replaced by 1 at the lowest exponent that
\* can still influence rounding; returns <<tmp, other>>
NormalizeOrdered(tmp, other, p) ==
    Align(tmp, Negligible(other,
                          tmp.exp + MinInt(-1, Len(tmp.digits) - p - 2)))

Swap(pair) == <<pair[2], pair[1]>>

\* decimal._normalize: bring two non-zero operands to a common exponent
Normalize(a, b, p) ==
    IF a.exp < b.exp THEN Swap(NormalizeOrdered(b, a, p))
    ELSE NormalizeOrdered(a, b, p)

\* the sum of two non-zero operands at a common exponent, before rounding;
\* e is the exponent of an exact zero result
AddAlignedOps(op1, op2, e) ==
    LET c == NatCmp(op1.digits, op2.digits)
    IN  IF op1.sign # op2.sign
        THEN IF c = 0 THEN Dec(0, <<0>>, e)
             ELSE IF c < 0
             THEN Dec(op2.sign, NatSub(op2.digits, op1.digits), op1.exp)
             ELSE Dec(op1.sign, NatSub(op1.digits, op2.digits), op1.exp)
        ELSE Dec(op1.sign, NatAdd(op1.digits, op2.digits), op1.exp)

AddNormalized(ops, e) == AddAlignedOps(ops[1], ops[2], e)

\* Decimal.__add__
DecAdd(a, b, p) ==
    LET e == MinInt(a.exp, b.exp)
    IN  Fix(IF DecIsZero(a) /\ DecIsZero(b)
            THEN Dec(MinInt(a.sign, b.sign), <<0>>, e)
            ELSE IF DecIsZero(a)
            THEN RescaleDown(b, MaxInt(e, b.exp - p - 1))
            ELSE IF DecIsZero(b)
            THEN RescaleDown(a, MaxInt(e, a.exp - p - 1))
            ELSE AddNormalized(Normalize(a, b, p), e),
            p)

\* Decimal.__sub__: self.__add__(other.copy_negate())
DecSub(a, b, p) == DecAdd(a, CopyNegate(b), p)

\* seeded fault: the product takes the sign of its first operand
DecMulLeftSign(a, b, p) ==
    Fix(Dec(a.sign,
            IF DecIsZero(a) \/ DecIsZero(b) THEN <<0>>
            ELSE NatMul(a.digits, b.digits),
            a.exp + b.exp),
        p)

\* Decimal.__mul__
DecMul(a, b, p) ==
    Fix(Dec(IF a.sign = b.sign THEN 0 ELSE 1,
            IF DecIsZero(a) \/ DecIsZero(b) THEN <<0>>
            ELSE NatMul(a.digits, b.digits),
            a.exp + b.exp),
        p)

\* how many trailing zeros the coefficient c has
TrailingZeros(c) ==
    LET nz == {i \in 1..Len(c) : c[i] # 0}
    IN  IF nz = {} THEN 0
        ELSE Len(c) - (CHOOSE i \in nz : \A j \in nz : j <= i)

\* while exp < ideal_exp and coeff % 10 == 0: coeff //= 10; exp += 1
ToIdeal(sign, c, e, ideal) ==
    LET k == MaxInt(0, MinInt(TrailingZeros(c), ideal - e))
    IN  Dec(sign, SubSeq(c, 1, Len(c) - k), e + k)

\* the quotient from divmod: inexact, the coefficient is made to end in
\* neither 0 nor 5 so that rounding sees the remainder; exact, it is brought
\* towards the ideal exponent
DivResult(sign, qr, e, ideal) ==
    IF ~NatIsZero(qr.r)
    THEN Dec(sign,
             IF qr.q[Len(qr.q)] % 5 = 0 THEN NatAdd(qr.q, <<1>>) ELSE qr.q,
             e)
    ELSE ToIdeal(sign, qr.q, e, ideal)

\* the first p digits of x, the rest dropped
Truncated(x, p) ==
    IF Len(x.digits) <= p THEN x
    ELSE Dec(x.sign, SubSeq(x.digits, 1, p), x.exp + Len(x.digits) - p)

\* seeded fault: the quotient cut off after p digits, not rounded
DecDivTruncated(a, b, p) ==
    LET sign  == IF a.sign = b.sign THEN 0 ELSE 1
        shift == Len(b.digits) - Len(a.digits) + p + 1
    IN  Truncated(IF DecIsZero(a) THEN Dec(sign, <<0>>, a.exp - b.exp)
                  ELSE DivResult(sign,
                                 NatDivMod(IF shift >= 0
                                           THEN ShiftLeft(a.digits, shift)
                                           ELSE a.digits,
                                           IF shift >= 0 THEN b.digits
                                           ELSE ShiftLeft(b.digits, -shift)),
                                 a.exp - b.exp - shift,
                                 a.exp - b.exp),
                  p)

\* Decimal.__truediv__ for a non-zero divisor b
DecDiv(a, b, p) ==
    LET sign  == IF a.sign = b.sign THEN 0 ELSE 1
        shift == Len(b.digits) - Len(a.digits) + p + 1
    IN  Fix(IF DecIsZero(a) THEN Dec(sign, <<0>>, a.exp - b.exp)
            ELSE DivResult(sign,
                           NatDivMod(IF shift >= 0
                                     THEN ShiftLeft(a.digits, shift)
                                     ELSE a.digits,
                                     IF shift >= 0 THEN b.digits
                                     ELSE ShiftLeft(b.digits, -shift)),
                           a.exp - b.exp - shift,
                           a.exp - b.exp),
            p)

\* -1 or 1: the sign of a non-zero value
Signum(x) == IF x.sign = 1 THEN -1 ELSE 1

\* the comparison c of two magnitudes, turned for the common sign s
Directed(c, s) == IF c = 0 THEN 0 ELSE IF c < 0 THEN -s ELSE s

\* Decimal._cmp: -1, 0, 1 as x <, =, > y numerically
DecCmp(x, y) ==
    IF DecIsZero(x) /\ DecIsZero(y) THEN 0
    ELSE IF DecIsZero(x) THEN -Signum(y)
    ELSE IF DecIsZero(y) THEN Signum(x)
    ELSE IF y.sign < x.sign THEN -1
    ELSE IF x.sign < y.sign THEN 1
    ELSE IF Adjusted(x) = Adjusted(y)
    THEN Directed(NatCmp(ShiftLeft(x.digits, x.exp - y.exp),
                         ShiftLeft(y.digits, y.exp - x.exp)),
                  Signum(x))
    ELSE IF Adjusted(x) > Adjusted(y) THEN Signum(x)
    ELSE -Signum(x)

DecEq(x, y) == DecCmp(x, y) = 0
DecGt(x, y) == DecCmp(x, y) > 0
DecGe(x, y) == DecCmp(x, y) >= 0
DecLe(x, y) == DecCmp(x, y) <= 0

\* Decimal.__abs__: the sign cleared, rounded to the context
DecAbs(x, p) == Fix(Dec(0, x.digits, x.exp), p)

\* Decimal.__neg__: zero loses its sign, the result is rounded to the context
DecNeg(x, p) ==
    Fix(IF DecIsZero(x) THEN Dec(0, x.digits, x.exp) ELSE CopyNegate(x), p)

(***************************************************************************)
(* Optional values: None is the empty sequence, Some(x) the sequence <<x>>. *)
(***************************************************************************)
None == <<>>
Some(x) == <<x>>

(***************************************************************************)
(* exceptions.py: the service's error classes.  An error value carries the *)
(* class it was raised as and the fields HTTPException stores.             *)
(***************************************************************************)
HTTP_200_OK == 200
HTTP_400_BAD_REQUEST == 400
HTTP_422_UNPROCESSABLE_ENTITY == 422

ErrorClasses ==
    {"ArithmeticServiceError", "DivisionByZeroError",
     "CalculationOverflowError", "UnsupportedOperationError"}

\* the class attribute status_code
ClassStatusCode(cls) == HTTP_400_BAD_REQUEST

\* the class attribute detail
ClassDetail(cls) ==
    CASE cls = "DivisionByZeroError" -> "Division by zero is not allowed"
      [] cls = "CalculationOverflowError" ->
             "Calculation result exceeds supported range"
      [] cls = "UnsupportedOperationError" -> "Unsupported operation"
      [] OTHER -> "Arithmetic service error"

\* seeded fault: an explicit status code makes the constructor drop the
\* default message of the class for that of the base class
ArithmeticServiceErrorBaseDetail(cls, detail, status_code, headers) ==
    [cls         |-> cls,
     status_code |-> IF status_code # None THEN status_code[1]
                     ELSE ClassStatusCode(cls),
     detail      |-> IF detail # None THEN detail[1]
                     ELSE IF status_code # None
                          THEN ClassDetail("ArithmeticServiceError")
                          ELSE ClassDetail(cls),
     headers     |-> headers]

\* ArithmeticServiceError.__init__(detail=None, status_code=None, headers=None)
ArithmeticServiceError(cls, detail, status_code, headers) ==
    [cls         |-> cls,
     status_code |-> IF status_code # None THEN status_code[1]
                     ELSE ClassStatusCode(cls),
     detail      |-> IF detail # None THEN detail[1] ELSE ClassDetail(cls),
     headers     |-> headers]

DivisionByZeroError(detail) ==
    ArithmeticServiceError("DivisionByZeroError", detail, None, None)

CalculationOverflowError(detail) ==
    ArithmeticServiceError("CalculationOverflowError", detail, None, None)

UnsupportedOperationError(detail) ==
    ArithmeticServiceError("UnsupportedOperationError", detail, None, None)

(***************************************************************************)
(* api/models.py: the operand bound and the operation enumeration.         *)
(***************************************************************************)
\* decimal.getcontext().prec = 28
Prec == 28

\* MAX_ABS_OPERAND = Decimal(10) ** 10, which is Decimal('10000000000')
MAX_ABS_OPERAND == Dec(0, <<1>> \o Zeros(10), 0)

\* the values of OperationType
OperationType == {"add", "subtract", "multiply", "divide"}

(***************************************************************************)
(* core/calculator.py.  A call either returns a value or raises an error:  *)
(* [raised |-> FALSE, value |-> <<v>>, exc |-> <<>>] or                    *)
(* [raised |-> TRUE,  value |-> <<>>,  exc |-> <<e>>].                     *)
(* p is the precision of the decimal context in effect during the call.    *)
(***************************************************************************)
Return(v) == [raised |-> FALSE, value |-> Some(v), exc |-> None]
Raise(e)  == [raised |-> TRUE, value |-> None, exc |-> Some(e)]

\* seeded fault: the range test made with >= instead of >
CheckedResultInclusive(result, p) ==
    IF DecGe(DecAbs(result, p), MAX_ABS_OPERAND)
    THEN Raise(CalculationOverflowError(
                   Some("Calculation result exceeds supported range")))
    ELSE Return(result)

\* if abs(result) > MAX_ABS_OPERAND: raise CalculationOverflowError(...)
CheckedResult(result, p) ==
    IF DecGt(DecAbs(result, p), MAX_ABS_OPERAND)
    THEN Raise(CalculationOverflowError(
                   Some("Calculation result exceeds supported range")))
    ELSE Return(result)

\* seeded fault: add without the range test
addUnchecked(a, b, p) == Return(DecAdd(a, b, p))

\* seeded fault: add testing its operands against the range as well
addCheckingOperands(a, b, p) ==
    IF \/ DecGt(DecAbs(a, p), MAX_ABS_OPERAND)
       \/ DecGt(DecAbs(b, p), MAX_ABS_OPERAND)
    THEN Raise(CalculationOverflowError(
                   Some("Calculation result exceeds supported range")))
    ELSE CheckedResult(DecAdd(a, b, p), p)

add(a, b, p) ==
    LET result == DecAdd(a, b, p)
    IN  CheckedResult(result, p)

\* seeded fault: the operands of the subtraction exchanged
subtractReversed(a, b, p) == CheckedResult(DecSub(b, a, p), p)

subtract(a, b, p) ==
    LET result == DecSub(a, b, p)
    IN  CheckedResult(result, p)

\* seeded fault: multiply without the range test
multiplyUnchecked(a, b, p) == Return(DecMul(a, b, p))

\* seeded fault: the range test applied to the product in full, before it is
\* rounded
multiplyCheckingExact(a, b, p) ==
    IF DecGt(Dec(0, NatMul(a.digits, b.digits), a.exp + b.exp),
             MAX_ABS_OPERAND)
    THEN Raise(CalculationOverflowError(
                   Some("Calculation result exceeds supported range")))
    ELSE Return(DecMul(a, b, p))

multiply(a, b, p) ==
    LET result == DecMul(a, b, p)
    IN  CheckedResult(result, p)

\* seeded fault: a zero divisor reported as a result out of range
divideZeroAsOverflow(a, b, p) ==
    IF DecEq(b, Dec(0, <<0>>, 0))
    THEN Raise(CalculationOverflowError(
                   Some("Calculation result exceeds supported range")))
    ELSE CheckedResult(DecDiv(a, b, p), p)

\* seeded fault: divide multiplying by the divisor
divideMultiplying(a, b, p) ==
    IF DecEq(b, Dec(0, <<0>>, 0))
    THEN Raise(DivisionByZeroError(Some("Division by zero is not allowed")))
    ELSE CheckedResult(DecMul(a, b, p), p)

divide(a, b, p) ==
    IF DecEq(b, Dec(0, <<0>>, 0))
    THEN Raise(DivisionByZeroError(Some("Division by zero is not allowed")))
    ELSE LET result == DecDiv(a, b, p)
         IN  CheckedResult(result, p)

(***************************************************************************)
(* Request validation (CalculationRequest, api/models.py).  The body is    *)
(* JSON: each field is absent (None) or present.  An operand is a JSON     *)
(* string, integer literal or floating literal, given by its text as a     *)
(* sequence of characters; the operation is a JSON string.                 *)
(***************************************************************************)
DigitChars == <<"0", "1", "2", "3", "4", "5", "6", "7", "8", "9">>

IsDigit(c) == \E i \in 1..10 : DigitChars[i] = c

DigitVal(c) == (CHOOSE i \in 1..10 : DigitChars[i] = c) - 1

AllDigits(t) == \A i \in 1..Len(t) : IsDigit(t[i])

\* int() of a short run of digit characters (an exponent)
RECURSIVE SmallInt(_)
SmallInt(t) ==
    IF Len(t) = 0 THEN 0
    ELSE 10 * SmallInt(SubSeq(t, 1, Len(t) - 1)) + DigitVal(t[Len(t)])

First(S) == CHOOSE i \in S : \A j \in S : i <= j

NonFiniteTokens ==
    {<<"N", "a", "N">>, <<"n", "a", "n">>, <<"I", "n", "f">>,
     <<"I", "n", "f", "i", "n", "i", "t", "y">>}

\* the number parsed from its parts: digits before and after the point and
\* the exponent part (hasExp: an E was present, expt: what follows it)
ParseParts(sign, intp, frac, hasExp, expt) ==
    LET expSign == Len(expt) > 0 /\ expt[1] \in {"+", "-"}
        expDigs == IF expSign THEN Tail(expt) ELSE expt
    IN  IF /\ AllDigits(intp)
           /\ AllDigits(frac)
           /\ Len(intp) + Len(frac) > 0
           /\ hasExp => (Len(expDigs) > 0 /\ AllDigits(expDigs))
        THEN [status |-> "ok",
              value  |-> Some(Dec(sign,
                                  StripZeros([i \in 1..(Len(intp) + Len(frac)) |->
                                                DigitVal((intp \o frac)[i])]),
                                  (IF expSign /\ expt[1] = "-"
                                   THEN -SmallInt(expDigs)
                                   ELSE SmallInt(expDigs)) - Len(frac)))]
        ELSE [status |-> "invalid", value |-> None]

\* the mantissa split at its first point
ParseMantissa(sign, mant, hasExp, expt) ==
    LET dots == {i \in 1..Len(mant) : mant[i] = "."}
    IN  ParseParts(sign,
                   IF dots = {} THEN mant ELSE SubSeq(mant, 1, First(dots) - 1),
                   IF dots = {} THEN <<>>
                   ELSE SubSeq(mant, First(dots) + 1, Len(mant)),
                   hasExp, expt)

\* the unsigned text: a NaN / Infinity token, or a number split at its E
ParseUnsigned(sign, body) ==
    LET es == {i \in 1..Len(body) : body[i] \in {"E", "e"}}
    IN  IF body \in NonFiniteTokens
        THEN [status |-> "nonfinite", value |-> None]
        ELSE ParseMantissa(sign,
                           IF es = {} THEN body
                           ELSE SubSeq(body, 1, First(es) - 1),
                           es # {},
                           IF es = {} THEN <<>>
                           ELSE SubSeq(body, First(es) + 1, Len(body)))

\* decimal.Decimal(text): [sign] digits [. digits] [E [sign] digits], or a
\* NaN / Infinity token.  status is "ok", "nonfinite" or "invalid".
ParseDecimal(t) ==
    LET hasSign == Len(t) > 0 /\ t[1] \in {"+", "-"}
    IN  ParseUnsigned(IF hasSign /\ t[1] = "-" THEN 1 ELSE 0,
                      IF hasSign THEN Tail(t) ELSE t)

\* repr() of the float a short positional literal int.frac denotes: the
\* fraction loses its trailing zeros but keeps one digit ("2.50" -> "2.5",
\* "2.0" -> "2.0")
FloatRepr(t) ==
    LET dot == First({i \in 1..Len(t) : t[i] = "."})
        nz  == {i \in (dot + 1)..Len(t) : t[i] # "0"}
    IN  SubSeq(t, 1, IF nz = {} THEN dot + 1
                     ELSE CHOOSE i \in nz : \A j \in nz : j <= i)

\* seeded fault: the literal of a JSON float taken as written, not through
\* float and str
ToDecimalLiteral(raw) == ParseDecimal(raw.text)

\* the Decimal pydantic builds from a JSON operand: Decimal(str) for a
\* string, Decimal(int) for an integer, Decimal(str(float)) for a float
ToDecimal(raw) ==
    ParseDecimal(IF raw.type = "float" THEN FloatRepr(raw.text) ELSE raw.text)

\* seeded fault: the upper bound exclusive (lt instead of le)
ConstraintIssueExclusive(d, p) ==
    IF d.status = "invalid" THEN "decimal_parsing"
    ELSE IF d.status = "nonfinite" THEN "finite_number"
    ELSE IF DecGe(d.value[1], MAX_ABS_OPERAND) THEN "less_than"
    ELSE IF ~DecGe(d.value[1], DecNeg(MAX_ABS_OPERAND, p))
    THEN "greater_than_equal"
    ELSE ""

\* the constraints on a parsed operand d: finite, le=MAX_ABS_OPERAND,
\* ge=-MAX_ABS_OPERAND.  Returns the issue type, or "" when valid.
ConstraintIssue(d, p) ==
    IF d.status = "invalid" THEN "decimal_parsing"
    ELSE IF d.status = "nonfinite" THEN "finite_number"
    ELSE IF ~DecLe(d.value[1], MAX_ABS_OPERAND) THEN "less_than_equal"
    ELSE IF ~DecGe(d.value[1], DecNeg(MAX_ABS_OPERAND, p))
    THEN "greater_than_equal"
    ELSE ""

\* seeded fault: the operands validated as numbers only, the range left to
\* the calculation
OperandIssueUnbounded(field, p) ==
    IF field = None THEN "missing"
    ELSE IF ToDecimal(field[1]).status = "invalid" THEN "decimal_parsing"
    ELSE IF ToDecimal(field[1]).status = "nonfinite" THEN "finite_number"
    ELSE ""

\* one operand field: Decimal, Field(..., ge=-MAX_ABS_OPERAND,
\* le=MAX_ABS_OPERAND).  Returns the issue type, or "" when valid.
OperandIssue(field, p) ==
    IF field = None THEN "missing"
    ELSE ConstraintIssue(ToDecimal(field[1]), p)

\* seeded fault: the operation matched without regard to case
OperationIssueAnyCase(field) ==
    IF field = None THEN "missing"
    ELSE IF field[1] \notin OperationType \cup {"ADD"} THEN "enum"
    ELSE ""

\* the operation field: OperationType, Field(...)
OperationIssue(field) ==
    IF field = None THEN "missing"
    ELSE IF field[1] \notin OperationType THEN "enum"
    ELSE ""

Issue(name, type) == [loc |-> <<"body", name>>, type |-> type]

\* the issues of one field: none, or the one issue found
FieldIssues(name, type) == IF type = "" THEN <<>> ELSE <<Issue(name, type)>>

\* seeded fault: validation stops at the first field with an issue
ValidationIssuesFirstOnly(body, p) ==
    SubSeq(FieldIssues("operation", OperationIssue(body.operation))
           \o FieldIssues("a", OperandIssue(body.a, p))
           \o FieldIssues("b", OperandIssue(body.b, p)), 1, 1)

\* the issues of a body, one per violated field, in field order
ValidationIssues(body, p) ==
    FieldIssues("operation", OperationIssue(body.operation))
    \o FieldIssues("a", OperandIssue(body.a, p))
    \o FieldIssues("b", OperandIssue(body.b, p))

\* the CalculationRequest a valid body becomes
CalculationRequest(body) ==
    [operation |-> body.operation[1],
     a         |-> ToDecimal(body.a[1]).value[1],
     b         |-> ToDecimal(body.b[1]).value[1]]

(***************************************************************************)
(* api/routers/calculate.py: the /calculate handler.                       *)
(***************************************************************************)
\* seeded fault: subtract mapped to the add function
operation_mapSwapped ==
    [op \in OperationType |->
        CASE op = "add" -> "add"
          [] op = "subtract" -> "add"
          [] op = "multiply" -> "multiply"
          [] op = "divide" -> "divide"]

\* seeded fault: a dispatch table with no entry for divide
operation_mapPartial ==
    [op \in OperationType \ {"divide"} |->
        CASE op = "add" -> "add"
          [] op = "subtract" -> "subtract"
          [] op = "multiply" -> "multiply"]

\* operation_map: OperationType -> calculator function
operation_map ==
    [op \in OperationType |->
        CASE op = "add" -> "add"
          [] op = "subtract" -> "subtract"
          [] op = "multiply" -> "multiply"
          [] op = "divide" -> "divide"]

\* calculator_func(a, b) for the function the map selected
CallCalculator(func, a, b, p) ==
    CASE func = "add" -> add(a, b, p)
      [] func = "subtract" -> subtract(a, b, p)
      [] func = "multiply" -> multiply(a, b, p)
      [] func = "divide" -> divide(a, b, p)

\* a fault no except clause names (the calculator function patched to raise,
\* as in the router's tests, or any other exception)
RuntimeError == [cls |-> "RuntimeError", args |-> "Unexpected error"]

CalculationResponse(result, operation, operands) ==
    [result |-> result, operation |-> operation, operands |-> operands]

\* the exceptions the first except clause re-raises unchanged
KnownErrors ==
    {"DivisionByZeroError", "CalculationOverflowError",
     "UnsupportedOperationError"}

\* seeded fault: the operands echoed after rounding to the context
RespondRounded(request, r) ==
    IF r.raised THEN r
    ELSE Return(CalculationResponse(r.value[1], request.operation,
                                    <<Fix(request.a, Prec),
                                      Fix(request.b, Prec)>>))

\* return CalculationResponse(result=result, operation=request.operation,
\* operands=[request.a, request.b]), unless the call r raised
Respond(request, r) ==
    IF r.raised THEN r
    ELSE Return(CalculationResponse(r.value[1], request.operation,
                                    <<request.a, request.b>>))

\* the body of the try block: look the function up, call it, build the response
TryCalculate(request, p, fault) ==
    IF request.operation \notin DOMAIN operation_map
    THEN Raise(UnsupportedOperationError(
                   Some("Unsupported operation: " \o request.operation)))
    ELSE IF fault THEN Raise(RuntimeError)
    ELSE Respond(request,
                 CallCalculator(operation_map[request.operation],
                                request.a, request.b, p))

\* seeded fault: the catch-all clause passes the fault's own message on
ExceptExposing(out) ==
    IF out.raised /\ out.exc[1].cls \notin KnownErrors
    THEN Raise(UnsupportedOperationError(Some(out.exc[1].args)))
    ELSE out

\* seeded fault: one except clause for everything, so that the errors of the
\* core functions get the fallback message too
ExceptCatchingAll(out) ==
    IF out.raised
    THEN Raise(UnsupportedOperationError(
                   Some("An unexpected error occurred during calculation")))
    ELSE out

\* the except clauses: a known service error is re-raised as it is, anything
\* else becomes an UnsupportedOperationError with the fallback message
Except(out) ==
    IF out.raised /\ out.exc[1].cls \notin KnownErrors
    THEN Raise(UnsupportedOperationError(
                   Some("An unexpected error occurred during calculation")))
    ELSE out

\* async def calculate(request): the try block and its two except clauses
calculate(request, p, fault) == Except(TryCalculate(request, p, fault))

(***************************************************************************)
(* app.py: the exception handler registered for ArithmeticServiceError.    *)
(***************************************************************************)
JSONResponse(status_code, content) ==
    [status_code |-> status_code, content |-> content]

\* seeded fault: the response built from the class defaults, not from the
\* error raised
handlerFromClassDefaults(e) ==
    JSONResponse(ClassStatusCode(e.cls), [detail |-> ClassDetail(e.cls)])

\* seeded fault: the error body keeps the fields of a calculation response
handlerWithResultFields(e) ==
    JSONResponse(e.status_code,
                 [detail |-> e.detail, result |-> None, operation |-> None,
                  operands |-> None])

\* seeded fault: every service error answered with status 400
handlerAlways400(e) ==
    JSONResponse(HTTP_400_BAD_REQUEST, [detail |-> e.detail])

arithmetic_service_error_handler(e) ==
    JSONResponse(e.status_code, [detail |-> e.detail])

(***************************************************************************)
(* api/models.py: CalculationResponse as JSON.  A JSON value is its type   *)
(* and its text, as the operands of a body are.                            *)
(***************************************************************************)
DigitText(ds) == [i \in 1..Len(ds) |-> DigitChars[ds[i] + 1]]

\* "%d" of a natural number (the magnitude of an exponent)
RECURSIVE NatText(_)
NatText(n) ==
    IF n < 10 THEN <<DigitChars[n + 1]>>
    ELSE Append(NatText(n \div 10), DigitChars[(n % 10) + 1])

\* "%+d"
SignedText(n) ==
    IF n < 0 THEN <<"-">> \o NatText(-n) ELSE <<"+">> \o NatText(n)

\* the digits laid out around the point at dotplace
Positional(int, dotplace) ==
    IF dotplace <= 0
    THEN <<"0", ".">> \o [i \in 1..(-dotplace) |-> "0"] \o int
    ELSE IF dotplace >= Len(int)
    THEN int \o [i \in 1..(dotplace - Len(int)) |-> "0"]
    ELSE SubSeq(int, 1, dotplace) \o <<".">>
         \o SubSeq(int, dotplace + 1, Len(int))

\* the exponent part: nothing when the point stands where the number's
\* own exponent puts it
ExponentText(leftdigits, dotplace) ==
    IF leftdigits = dotplace THEN <<>>
    ELSE <<"E">> \o SignedText(leftdigits - dotplace)

StrAt(v, leftdigits, dotplace) ==
    (IF v.sign = 1 THEN <<"-">> ELSE <<>>)
    \o Positional(DigitText(v.digits), dotplace)
    \o ExponentText(leftdigits, dotplace)

\* str(v) of a finite Decimal: positional while the exponent is at most 0
\* and the number is not smaller than 1E-6, scientific otherwise
Str(v) ==
    StrAt(v, v.exp + Len(v.digits),
          IF v.exp <= 0 /\ v.exp + Len(v.digits) > -6
          THEN v.exp + Len(v.digits) ELSE 1)

JSONString(t) == [type |-> "str", text |-> t]

\* seeded fault: the result written as a JSON number through float, which
\* keeps no trailing zero of the fraction
serialize_resultAsNumber(v) ==
    [type |-> "float",
     text |-> Str(IF v.exp < 0
                  THEN ToIdeal(v.sign, v.digits, v.exp, -1)
                  ELSE v)]

\* @field_serializer('result'): str(v)
serialize_result(v) == JSONString(Str(v))

\* @field_serializer('operands'): [str(x) for x in v]
serialize_operands(v) == [i \in 1..Len(v) |-> JSONString(Str(v[i]))]

\* the JSON object FastAPI sends for the response model
model_dump_json(r) ==
    [result    |-> serialize_result(r.result),
     operation |-> r.operation,
     operands  |-> serialize_operands(r.operands)]

\* the CalculationResponse a client reads back from the JSON object
model_validate_json(w) ==
    CalculationResponse(ToDecimal(w.result).value[1], w.operation,
                        [i \in 1..Len(w.operands) |->
                            ToDecimal(w.operands[i]).value[1]])

(***************************************************************************)
(* The inputs the model draws from.                                        *)
(***************************************************************************)
\* how many requests one behaviour serves
MaxRequests == 2

\* JSON integer operands 2 .. MaxIntOperand
MaxIntOperand == 3

StrOperand(t)   == Some([type |-> "str", text |-> t])
IntOperand(t)   == Some([type |-> "int", text |-> t])
FloatOperand(t) == Some([type |-> "float", text |-> t])

TenTo10Text == <<"1", "0", "0", "0", "0", "0", "0", "0", "0", "0", "0">>
TenTo10Plus1Text == <<"1", "0", "0", "0", "0", "0", "0", "0", "0", "0", "1">>

\* operands that pass validation
ValidOperands ==
    {StrOperand(<<"0">>), StrOperand(<<"0", ".", "0">>),
     StrOperand(<<"-", "0", ".", "0">>),
     StrOperand(<<"1">>), StrOperand(<<"0", ".", "5">>),
     StrOperand(TenTo10Text), StrOperand(<<"-">> \o TenTo10Text),
     StrOperand(<<"1", ".", "0", "0", "0", "0", "0", "0", "0", "0", "0", "1">>),
     StrOperand(<<"1", "E", "-", "2", "0">>),
     FloatOperand(<<"2", ".", "5", "0">>)}
    \cup {IntOperand(<<DigitChars[k + 1]>>) : k \in 2..MaxIntOperand}

\* operands that fail validation: missing, not a number, not finite, out of range
InvalidOperands ==
    {None, StrOperand(<<"i", "n", "v", "a", "l", "i", "d">>),
     StrOperand(<<"N", "a", "N">>),
     StrOperand(TenTo10Plus1Text), StrOperand(<<"-">> \o TenTo10Plus1Text)}

RawOperands == ValidOperands \cup InvalidOperands

RawOperations ==
    {None, Some("power"), Some("ADD")} \cup {Some(op) : op \in OperationType}

Body(op, a, b) == [operation |-> op, a |-> a, b |-> b]

LongA ==
    <<"1", "2", "3", ".", "1", "2", "3", "4", "5", "6", "7", "8", "9", "0",
      "1", "2", "3", "4", "5", "6", "7", "8", "9", "0", "1", "2", "3", "4",
      "5", "6", "7">>
LongB ==
    <<"4", "5", "6", ".", "9", "8", "7", "6", "5", "4", "3", "2", "1", "0",
      "9", "8", "7", "6", "5", "4", "3", "2", "1", "0", "9", "8", "7", "6",
      "5", "4", "3">>

\* 1 + 10^-29, thirty significant digits
OnePlusTinyText == <<"1", ".">> \o [i \in 1..28 |-> "0"] \o <<"1">>

\* further bodies: long operands, a repeating quotient, short and tiny
\* fractions
ExtraBodies ==
    {Body(Some("add"), StrOperand(LongA), StrOperand(LongB)),
     Body(Some("subtract"), StrOperand(LongB), StrOperand(LongA)),
     Body(Some("divide"), StrOperand(<<"2", "2">>), StrOperand(<<"7">>)),
     Body(Some("divide"), StrOperand(<<"7", ".", "5">>),
          StrOperand(<<"2", ".", "5">>)),
     Body(Some("add"), StrOperand(<<"0", ".", "1">>),
          StrOperand(<<"0", ".", "2">>)),
     Body(Some("add"), StrOperand(<<"1", "0", ".", "5">>),
          StrOperand(<<"5", ".", "2", "5">>)),
     Body(Some("add"), StrOperand(<<"1", "e", "-", "2", "5">>),
          StrOperand(<<"1", "e", "-", "2", "5">>)),
     Body(Some("add"), StrOperand(LongB), StrOperand(LongB)),
     Body(Some("multiply"), StrOperand(TenTo10Text),
          StrOperand(OnePlusTinyText)),
     Body(Some("multiply"), StrOperand(LongA), StrOperand(LongB)),
     Body(Some("divide"), StrOperand(LongA), StrOperand(<<"1">>))}

Bodies ==
    {Body(op, a, b) : op \in RawOperations, a \in RawOperands,
                      b \in RawOperands}
    \cup ExtraBodies

\* operands for calling the core functions directly, as the unit tests do:
\* the validated values and values beyond the validated range
InRangeValues == {ToDecimal(r[1]).value[1] : r \in ValidOperands}

OutOfRangeValues ==
    {Dec(0, <<1, 0, 0, 0, 0, 0, 0, 0, 0, 0, 1>>, 0),
     Dec(1, <<1, 0, 0, 0, 0, 0, 0, 0, 0, 0, 1>>, 0),
     Dec(0, <<1, 0, 0, 0, 0, 0, 0, 0, 0, 0, 5>>, 0),
     Dec(1, <<1, 0>>, 0)}

CoreValues == InRangeValues \cup OutOfRangeValues

\* the direct calls: at least one operand beyond the validated range (the
\* calls with validated operands are the ones /calculate makes)
CoreCalls ==
    {c \in [func : OperationType, a : CoreValues, b : CoreValues] :
        c.a \in OutOfRangeValues \/ c.b \in OutOfRangeValues}

\* how many requests concurrent clients post in one behaviour, and how many
\* of them are in flight at once
MaxSubmitted == 3
MaxInFlight == 2

\* what concurrent clients post: requests that succeed and requests that
\* fail in each way
Scenarios ==
    {Body(Some("add"), StrOperand(<<"1", "0", ".", "5">>),
          StrOperand(<<"5", ".", "2", "5">>)),
     Body(Some("subtract"), StrOperand(<<"1", ".", "0">>),
          StrOperand(<<"0", ".", "9">>)),
     Body(Some("divide"), StrOperand(<<"1">>), StrOperand(<<"0">>)),
     Body(Some("multiply"), StrOperand(TenTo10Text), StrOperand(TenTo10Text)),
     Body(Some("power"), StrOperand(<<"1">>), StrOperand(<<"1">>))}

\* errors a route may raise directly: each class, with and without an
\* explicit detail and status code
DetailChoices == {None, Some("Formatted error message")}
StatusChoices == {None, Some(409), Some(422), Some(503)}

RouteErrors ==
    [cls : ErrorClasses, detail : DetailChoices, status_code : StatusChoices]

\* the arguments the unit tests construct an error with: each class, with and
\* without a detail, a status code and headers
HeaderChoices == {None, Some("X-Error-Code: ARITHMETIC_001")}

ErrorArgs ==
    [cls : ErrorClasses, detail : DetailChoices, status_code : StatusChoices,
     headers : HeaderChoices]

(***************************************************************************)
(* State.                                                                  *)
(*   prec      the precision of the process-wide decimal context           *)
(*   pc        where the request in progress is: "idle", "received",       *)
(*             "validated", "raised", "done", or "returned" after a direct *)
(*             call of a core function                                     *)
(*   route     the route serving the request: "calculate" or "other"       *)
(*   body      the JSON body received                                      *)
(*   request   the validated CalculationRequest, if any                    *)
(*   exc       the service error propagating to the exception handler      *)
(*   response  the response sent                                           *)
(*   call      the core function invocation made: operation, operands and  *)
(*             outcome                                                     *)
(*   wire      the JSON body of the response, as written to the client     *)
(*   served    how many requests and calls have completed                  *)
(*   suspended the requests in flight that the event loop is not running:  *)
(*             each one's pc, route, body, request, exc, response, call    *)
(*             and wire                                                    *)
(*   results   what concurrent clients have collected: request, status and *)
(*             response body of each completed request                     *)
(***************************************************************************)
VARIABLES prec, pc, route, body, request, exc, response, call, wire, served,
          suspended, results

vars == <<prec, pc, route, body, request, exc, response, call, wire, served,
          suspended, results>>

Init ==
    /\ prec = Prec
    /\ pc = "idle"
    /\ route = "none"
    /\ body = None
    /\ request = None
    /\ exc = None
    /\ response = None
    /\ call = None
    /\ wire = None
    /\ served = 0
    /\ suspended = <<>>
    /\ results = {}

\* a POST /calculate arrives
Receive ==
    /\ pc = "idle"
    /\ served < MaxRequests
    /\ pc' = "received"
    /\ route' = "calculate"
    /\ \E b \in Bodies : body' = Some(b)
    /\ UNCHANGED <<prec, request, exc, response, call, wire, served,
                   suspended, results>>

\* FastAPI validates the body against CalculationRequest before the handler
\* runs; a body with issues is answered 422 with the list of issues
Validate ==
    /\ pc = "received"
    /\ LET issues == ValidationIssues(body[1], prec)
       IN  IF issues # <<>>
           THEN /\ response' = Some(JSONResponse(HTTP_422_UNPROCESSABLE_ENTITY,
                                                 [detail |-> issues]))
                /\ wire' = Some([detail |-> issues])
                /\ pc' = "done"
                /\ UNCHANGED request
           ELSE /\ request' = Some(CalculationRequest(body[1]))
                /\ pc' = "validated"
                /\ UNCHANGED <<response, wire>>
    /\ UNCHANGED <<prec, route, body, exc, call, served, suspended, results>>

CoreCall(op, a, b, out) == [op |-> op, a |-> a, b |-> b, out |-> out]

\* seeded fault: a calculation that raised is tried again
CompleteRetrying(out) ==
    IF out.raised
    THEN /\ pc' = "validated"
         /\ UNCHANGED <<exc, response, wire>>
    ELSE /\ response' = Some(JSONResponse(HTTP_200_OK, out.value[1]))
         /\ wire' = Some(model_dump_json(out.value[1]))
         /\ pc' = "done"
         /\ UNCHANGED exc

\* the handler's outcome: the response model is serialized and sent with
\* status 200, or the service error propagates to the exception handler
Complete(out) ==
    IF out.raised
    THEN /\ exc' = out.exc
         /\ pc' = "raised"
         /\ UNCHANGED <<response, wire>>
    ELSE /\ response' = Some(JSONResponse(HTTP_200_OK, out.value[1]))
         /\ wire' = Some(model_dump_json(out.value[1]))
         /\ pc' = "done"
         /\ UNCHANGED exc

\* the call the handler makes of the calculator function, with its outcome
\* (none when the operation is not in the map)
CallMade(fault) ==
    IF request[1].operation \notin DOMAIN operation_map
    THEN None
    ELSE IF fault
    THEN Some(CoreCall("patched", request[1].a, request[1].b,
                       Raise(RuntimeError)))
    ELSE Some(CoreCall(operation_map[request[1].operation],
                       request[1].a, request[1].b,
                       CallCalculator(operation_map[request[1].operation],
                                      request[1].a, request[1].b, prec)))

\* seeded fault: the handler works for the first request only and fails
\* once a request has been served
ServeFirstOnly(fault) ==
    /\ Complete(calculate(request[1], prec, fault \/ served > 0))
    /\ call' = CallMade(fault \/ served > 0)
    /\ UNCHANGED <<prec, route, body, request, served, suspended, results>>

\* the handler runs on the validated request: it returns the response or
\* raises a service error (fault: the calculator function is patched to
\* raise)
Serve(fault) ==
    /\ Complete(calculate(request[1], prec, fault))
    /\ call' = CallMade(fault)
    /\ UNCHANGED <<prec, route, body, request, served, suspended, results>>

\* the handler runs with the calculator functions of core/calculator.py
Calculate ==
    /\ pc = "validated"
    /\ Serve(FALSE)

\* the handler runs while a test has the calculator function patched
CalculatePatched ==
    /\ pc = "validated"
    /\ Serve(TRUE)

\* the exception handler turns the service error into the response
HandleError ==
    /\ pc = "raised"
    /\ response' = Some(arithmetic_service_error_handler(exc[1]))
    /\ wire' = Some(arithmetic_service_error_handler(exc[1]).content)
    /\ pc' = "done"
    /\ UNCHANGED <<prec, route, body, request, exc, call, served, suspended,
                   results>>

\* another route of the app raises a service error (the routes the tests
\* add to exercise the exception handler)
RaiseInRoute ==
    /\ pc = "idle"
    /\ served < MaxRequests
    /\ route' = "other"
    /\ \E e \in RouteErrors :
          exc' = Some(ArithmeticServiceError(e.cls, e.detail, e.status_code,
                                             None))
    /\ pc' = "raised"
    /\ UNCHANGED <<prec, body, request, response, call, wire, served,
                   suspended, results>>

\* a core function is called directly with operands of any magnitude
CallCore ==
    /\ pc = "idle"
    /\ served < MaxRequests
    /\ \E c \in CoreCalls :
          call' = Some(CoreCall(c.func, c.a, c.b,
                                CallCalculator(c.func, c.a, c.b, prec)))
    /\ pc' = "returned"
    /\ route' = "none"
    /\ UNCHANGED <<prec, body, request, exc, response, wire, served,
                   suspended, results>>

\* an error is constructed directly, outside any route, as the unit tests of
\* the exception classes do
Construct ==
    /\ pc = "idle"
    /\ served < MaxRequests
    /\ \E k \in ErrorArgs :
          call' = Some([op   |-> "__init__",
                        args |-> k,
                        out  |-> Return(ArithmeticServiceError(
                                            k.cls, k.detail, k.status_code,
                                            k.headers))])
    /\ pc' = "returned"
    /\ route' = "none"
    /\ UNCHANGED <<prec, body, request, exc, response, wire, served,
                   suspended, results>>

\* what the event loop holds of the request it is running
Task ==
    [pc |-> pc, route |-> route, body |-> body, request |-> request,
     exc |-> exc, response |-> response, call |-> call, wire |-> wire]

\* no request
NoTask ==
    [pc |-> "idle", route |-> "none", body |-> None, request |-> None,
     exc |-> None, response |-> None, call |-> None, wire |-> None]

\* seeded fault: the validated request kept in one place for all requests
\* in flight, so that the request resumed finds the one that ran last
LoadSharedRequest(t) ==
    /\ pc' = t.pc
    /\ route' = t.route
    /\ body' = t.body
    /\ request' = IF request # None /\ t.request # None THEN request
                  ELSE t.request
    /\ exc' = t.exc
    /\ response' = t.response
    /\ call' = t.call
    /\ wire' = t.wire

\* the event loop turns to the request t
Load(t) ==
    /\ pc' = t.pc
    /\ route' = t.route
    /\ body' = t.body
    /\ request' = t.request
    /\ exc' = t.exc
    /\ response' = t.response
    /\ call' = t.call
    /\ wire' = t.wire

\* seeded fault: each request served leaves the context with one digit
\* less
FinishContextChanged ==
    /\ pc \in {"done", "returned"}
    /\ Load(NoTask)
    /\ served' = served + 1
    /\ prec' = prec - 1
    /\ UNCHANGED <<suspended, results>>

\* the request is over; nothing of it is kept
Finish ==
    /\ pc \in {"done", "returned"}
    /\ Load(NoTask)
    /\ served' = served + 1
    /\ UNCHANGED <<prec, suspended, results>>

\* how many requests are in flight
InFlight == Len(suspended) + (IF pc = "idle" THEN 0 ELSE 1)

\* a client thread posts a request while others may still be in flight
Submit ==
    /\ pc \in {"idle", "received", "validated", "raised", "done"}
    /\ served + InFlight < MaxSubmitted
    /\ InFlight < MaxInFlight
    /\ suspended' = IF pc = "idle" THEN suspended
                    ELSE Append(suspended, Task)
    /\ \E b \in Scenarios :
          Load([NoTask EXCEPT !.pc = "received", !.route = "calculate",
                              !.body = Some(b)])
    /\ UNCHANGED <<prec, served, results>>

\* the requests suspended, the one at i replaced by the running one (or
\* dropped when none is running)
Swapped(i) ==
    IF pc = "idle"
    THEN SubSeq(suspended, 1, i - 1)
         \o SubSeq(suspended, i + 1, Len(suspended))
    ELSE [suspended EXCEPT ![i] = Task]

\* the event loop leaves the request it was running at a step boundary and
\* resumes another
Switch ==
    /\ suspended # <<>>
    /\ \E i \in 1..Len(suspended) :
          /\ Load(suspended[i])
          /\ suspended' = Swapped(i)
    /\ UNCHANGED <<prec, served, results>>

\* what the client keeps of a completed request
Result(request_data, status_code, response_data) ==
    [request_data  |-> request_data,
     status_code   |-> status_code,
     response_data |-> response_data]

\* the client thread reads the response and its result is collected
Collect ==
    /\ pc = "done"
    /\ results' = results \cup {Result(body[1], response[1].status_code,
                                       wire[1])}
    /\ Load(NoTask)
    /\ served' = served + 1
    /\ UNCHANGED <<prec, suspended>>

Next ==
    \/ Receive
    \/ Validate
    \/ Calculate
    \/ CalculatePatched
    \/ HandleError
    \/ RaiseInRoute
    \/ CallCore
    \/ Construct
    \/ Finish

Spec == Init /\ [][Next]_vars

\* the calculate route alone, as its tests drive it
NextCalculate ==
    \/ Receive
    \/ Validate
    \/ Calculate
    \/ CalculatePatched
    \/ HandleError
    \/ Finish

SpecCalculate == Init /\ [][NextCalculate]_vars

\* the next step of the request in progress: validation, the handler or the
\* exception handler, whichever the request is waiting for
Advance ==
    /\ pc \in {"received", "validated", "raised"}
    /\ pc' \in {"validated", "raised", "done"}
    /\ pc' # pc

\* the server runs each request it has received to its response: a step
\* that can be taken is taken
FairCalculate == SpecCalculate /\ WF_pc(Advance)

\* the service under concurrent clients: requests arrive while others are
\* in flight and their steps interleave
NextConcurrent ==
    \/ Submit
    \/ Switch
    \/ Validate
    \/ Calculate
    \/ HandleError
    \/ Collect

SpecConcurrent == Init /\ [][NextConcurrent]_vars

(***************************************************************************)
(* Properties.                                                             *)
(***************************************************************************)
\* |x| > 10^10, read off the digits: the leading digit stands above the
\* 10^10 place, or at it with anything beyond a single 1
ExceedsBound(x) ==
    /\ \E i \in 1..Len(x.digits) : x.digits[i] # 0
    /\ \/ Adjusted(x) > 10
       \/ /\ Adjusted(x) = 10
          /\ \/ x.digits[1] > 1
             \/ \E i \in 2..Len(x.digits) : x.digits[i] # 0

\* the mathematical sum a + b: both coefficients brought to the lower
\* exponent and added or subtracted in full, no digit dropped
ExactSum(a, b) ==
    LET e  == MinInt(a.exp, b.exp)
        ca == ShiftLeft(a.digits, a.exp - e)
        cb == ShiftLeft(b.digits, b.exp - e)
        c  == NatCmp(ca, cb)
    IN  IF a.sign = b.sign THEN Dec(a.sign, NatAdd(ca, cb), e)
        ELSE IF c = 0 THEN Dec(0, <<0>>, e)
        ELSE IF c > 0 THEN Dec(a.sign, NatSub(ca, cb), e)
        ELSE Dec(b.sign, NatSub(cb, ca), e)

\* the outcome is the overflow error with its message
IsOverflow(out) ==
    /\ out.raised
    /\ out.exc[1].cls = "CalculationOverflowError"
    /\ out.exc[1].detail = "Calculation result exceeds supported range"

\* a call of add was made with both operands within [-10^10, 10^10]
AddCallInRange ==
    /\ call # None
    /\ call[1].op = "add"
    /\ ~ExceedsBound(call[1].a)
    /\ ~ExceedsBound(call[1].b)

\* C1 as stated: for |a|, |b| <= 10^10, add(a, b) returns exactly the
\* mathematical sum a + b when |a + b| <= 10^10 and fails with
\* CalculationOverflow otherwise.
C1_ExactSum ==
    AddCallInRange =>
        LET s == ExactSum(call[1].a, call[1].b)
        IN  IF ExceedsBound(s) THEN IsOverflow(call[1].out)
            ELSE /\ ~call[1].out.raised
                 /\ DecEq(call[1].out.value[1], s)

\* C1 amended: for |a|, |b| <= 10^10, add(a, b) returns the mathematical sum
\* a + b rounded half-even to the 28 significant digits of the context (so
\* exactly a + b whenever the sum has no more than 28 digits) when the
\* rounded sum has magnitude <= 10^10, and fails with CalculationOverflow
\* otherwise.
C1_RoundedSum ==
    AddCallInRange =>
        LET s == Fix(ExactSum(call[1].a, call[1].b), prec)
        IN  IF ExceedsBound(s) THEN IsOverflow(call[1].out)
            ELSE /\ ~call[1].out.raised
                 /\ DecEq(call[1].out.value[1], s)

\* an in-range add whose exact sum has more than 28 digits returned a value
\* that differs from it
C1_Witness ==
    /\ AddCallInRange
    /\ Len(ExactSum(call[1].a, call[1].b).digits) > prec
    /\ ~call[1].out.raised
    /\ ~DecEq(call[1].out.value[1], ExactSum(call[1].a, call[1].b))

\* the value the operation computes, before the range test
Computed(op, a, b, p) ==
    CASE op = "add" -> DecAdd(a, b, p)
      [] op = "subtract" -> DecSub(a, b, p)
      [] op = "multiply" -> DecMul(a, b, p)
      [] op = "divide" -> DecDiv(a, b, p)

\* a core function was called and, for divide, the divisor was not zero
ComputingCall ==
    /\ call # None
    /\ call[1].op \in {"add", "subtract", "multiply", "divide"}
    /\ call[1].op = "divide" => \E i \in 1..Len(call[1].b.digits) :
                                    call[1].b.digits[i] # 0

\* C2: each of add, subtract, multiply and divide fails with
\* CalculationOverflow ("Calculation result exceeds supported range") if and
\* only if the magnitude of its computed result is strictly greater than
\* 10^10; a result of exactly +10^10 or -10^10 is returned.
C2_OverflowIffExceeds ==
    ComputingCall =>
        LET r == Computed(call[1].op, call[1].a, call[1].b, prec)
        IN  IF ExceedsBound(r) THEN IsOverflow(call[1].out)
            ELSE call[1].out = Return(r)

\* a call returned exactly -10^10
C2_Witness ==
    /\ ComputingCall
    /\ ~call[1].out.raised
    /\ call[1].out.value[1].sign = 1
    /\ DecEq(call[1].out.value[1], DecNeg(MAX_ABS_OPERAND, prec))

\* C3: divide(a, b) fails with DivisionByZero ("Division by zero is not
\* allowed") if and only if b is numerically zero, for every a and every
\* representation of zero; a zero divisor never yields CalculationOverflow
\* or any other outcome.
C3_DivisionByZeroIffZero ==
    (call # None /\ call[1].op = "divide") =>
        IF \A i \in 1..Len(call[1].b.digits) : call[1].b.digits[i] = 0
        THEN /\ call[1].out.raised
             /\ call[1].out.exc[1].cls = "DivisionByZeroError"
             /\ call[1].out.exc[1].detail = "Division by zero is not allowed"
        ELSE ~(call[1].out.raised
               /\ call[1].out.exc[1].cls = "DivisionByZeroError")

\* divide was called with the divisor -0.0 and a dividend beyond the range,
\* and failed with DivisionByZero
C3_Witness ==
    /\ call # None
    /\ call[1].op = "divide"
    /\ call[1].b = Dec(1, <<0>>, -1)
    /\ ExceedsBound(call[1].a)
    /\ call[1].out.raised
    /\ call[1].out.exc[1].cls = "DivisionByZeroError"

\* validation of the body received has run
Validated == route = "calculate" /\ pc \in {"validated", "raised", "done"}

\* the response is a structural validation error
Rejected == response # None /\ response[1].status_code = 422

\* the issues of the validation error that name field f
IssuesNaming(f) ==
    {i \in 1..Len(response[1].content.detail) :
        response[1].content.detail[i].loc = <<"body", f>>}

NamesField(f) == Rejected /\ IssuesNaming(f) # {}

\* C4: a request is accepted only if both operands lie in [-10^10, 10^10]:
\* an operand exactly at -10^10 or 10^10 is accepted, and an operand a or b
\* outside the range, in either direction, is answered with status 422 and
\* an issue naming the field.
C4_ClosedRange ==
    Validated =>
        /\ \A f \in {"a", "b"} :
              (body[1][f] # None /\ ToDecimal(body[1][f][1]).status = "ok") =>
                  (ExceedsBound(ToDecimal(body[1][f][1]).value[1])
                       <=> NamesField(f))
        /\ request # None =>
              ~ExceedsBound(request[1].a) /\ ~ExceedsBound(request[1].b)

\* a request with a = 10^10 and b = -10^10 was accepted
C4_Witness ==
    /\ pc = "validated"
    /\ request[1].a = MAX_ABS_OPERAND
    /\ request[1].b = Dec(1, MAX_ABS_OPERAND.digits, 0)

\* C5: the operation is accepted only when it is exactly "add", "subtract",
\* "multiply" or "divide"; any other value is answered with status 422 and
\* an issue naming the field operation, never with a business-rule error.
C5_OperationEnum ==
    (Validated /\ body[1].operation # None) =>
        IF body[1].operation[1] \in {"add", "subtract", "multiply", "divide"}
        THEN ~NamesField("operation")
        ELSE /\ NamesField("operation")
             /\ request = None
             /\ exc = None
             /\ call = None

\* the operation "ADD" with two valid operands was refused for the
\* operation alone
C5_Witness ==
    /\ Validated
    /\ body[1].operation = Some("ADD")
    /\ NamesField("operation")
    /\ Len(response[1].content.detail) = 1

\* C6: when any subset of the fields operation, a, b is missing, the
\* validation error lists every missing field, one issue per missing field.
C6_EveryMissingField ==
    Validated =>
        \A f \in {"operation", "a", "b"} :
            body[1][f] = None =>
                /\ Rejected
                /\ Cardinality(IssuesNaming(f)) = 1
                /\ \A i \in IssuesNaming(f) :
                       response[1].content.detail[i].type = "missing"

\* a body with all three fields missing was answered with three issues
C6_Witness ==
    /\ Validated
    /\ body[1] = Body(None, None, None)
    /\ Rejected
    /\ Len(response[1].content.detail) = 3

\* the text holds a character that no decimal number holds
NonNumeric(t) ==
    \E i \in 1..Len(t) :
        ~IsDigit(t[i]) /\ t[i] \notin {"+", "-", ".", "E", "e"}

\* operands as sent and the decimal value each denotes: strings, integers
\* and a floating literal
Conversions ==
    {<<StrOperand(<<"0", ".", "5">>), Dec(0, <<5>>, -1)>>,
     <<StrOperand(<<"1", "E", "-", "2", "0">>), Dec(0, <<1>>, -20)>>,
     <<StrOperand(<<"-", "0", ".", "0">>), Dec(1, <<0>>, -1)>>,
     <<StrOperand(TenTo10Text), Dec(0, <<1, 0, 0, 0, 0, 0, 0, 0, 0, 0, 0>>, 0)>>,
     <<IntOperand(<<"2">>), Dec(0, <<2>>, 0)>>,
     <<IntOperand(<<"3">>), Dec(0, <<3>>, 0)>>,
     <<FloatOperand(<<"2", ".", "5", "0">>), Dec(0, <<2, 5>>, -1)>>}

\* C7: an operand that does not parse as a decimal number is answered with
\* status 422 and an issue naming the field, while numeric strings, integers
\* and floating literals within range are accepted and converted to their
\* decimal values.
C7_OperandParsing ==
    Validated =>
        \A f \in {"a", "b"} :
            body[1][f] # None =>
                /\ NonNumeric(body[1][f][1].text) =>
                       NamesField(f) /\ request = None
                /\ \A c \in Conversions :
                       body[1][f] = c[1] =>
                           /\ ~NamesField(f)
                           /\ request # None => request[1][f] = c[2]

\* a request with a floating literal and an integer was accepted and both
\* were converted
C7_Witness ==
    /\ pc = "validated"
    /\ body[1].a = FloatOperand(<<"2", ".", "5", "0">>)
    /\ body[1].b = IntOperand(<<"3">>)
    /\ request[1].a = Dec(0, <<2, 5>>, -1)
    /\ request[1].b = Dec(0, <<3>>, 0)

\* a service error was raised and the exception handler has answered
ErrorAnswered == pc = "done" /\ exc # None

\* C8 as stated: every business-rule error that reaches the boundary is
\* answered with status 400 and {detail: message}, the message being the
\* fixed one of its kind: "Division by zero is not allowed", "Calculation
\* result exceeds supported range", "Unsupported operation".
C8_FixedMessagePerKind ==
    (ErrorAnswered /\ exc[1].cls \in {"DivisionByZeroError",
                                      "CalculationOverflowError",
                                      "UnsupportedOperationError"}) =>
        response[1] =
            [status_code |-> 400,
             content |->
                 [detail |->
                     CASE exc[1].cls = "DivisionByZeroError" ->
                              "Division by zero is not allowed"
                       [] exc[1].cls = "CalculationOverflowError" ->
                              "Calculation result exceeds supported range"
                       [] exc[1].cls = "UnsupportedOperationError" ->
                              "Unsupported operation"]]

\* C8 amended: every business-rule error that reaches the boundary is
\* answered with the status and the {detail: message} the error carries; for
\* the errors the calculate route raises that is status 400 with "Division
\* by zero is not allowed" for DivisionByZero, "Calculation result exceeds
\* supported range" for CalculationOverflow and "An unexpected error
\* occurred during calculation" for UnsupportedOperation.
C8_MessageCarried ==
    ErrorAnswered =>
        /\ response[1] = [status_code |-> exc[1].status_code,
                          content |-> [detail |-> exc[1].detail]]
        /\ route = "calculate" =>
              /\ exc[1].cls \in {"DivisionByZeroError",
                                 "CalculationOverflowError",
                                 "UnsupportedOperationError"}
              /\ response[1] =
                     [status_code |-> 400,
                      content |->
                          [detail |->
                              CASE exc[1].cls = "DivisionByZeroError" ->
                                       "Division by zero is not allowed"
                                [] exc[1].cls = "CalculationOverflowError" ->
                                       "Calculation result exceeds supported range"
                                [] exc[1].cls = "UnsupportedOperationError" ->
                                       "An unexpected error occurred during calculation"]]

\* the calculate route raised CalculationOverflow and it was answered
C8_Witness ==
    /\ ErrorAnswered
    /\ route = "calculate"
    /\ exc[1].cls = "CalculationOverflowError"
    /\ response[1].status_code = 400

\* the calculator function raised something that is none of the three
\* service errors
UnexpectedFault ==
    /\ call # None
    /\ call[1].out.raised
    /\ call[1].out.exc[1].cls \notin {"DivisionByZeroError",
                                      "CalculationOverflowError",
                                      "UnsupportedOperationError"}

\* C9: a fault raised during calculation that is not DivisionByZero,
\* CalculationOverflow or UnsupportedOperation is caught by the calculate
\* handler and answered with status 400 and detail "An unexpected error
\* occurred during calculation"; the raw fault never reaches the caller.
C9_UnexpectedFaultCaught ==
    UnexpectedFault =>
        /\ exc # None
        /\ exc[1].cls = "UnsupportedOperationError"
        /\ exc[1].status_code = 400
        /\ exc[1].detail = "An unexpected error occurred during calculation"
        /\ response # None =>
              response[1] =
                  [status_code |-> 400,
                   content |->
                       [detail |->
                           "An unexpected error occurred during calculation"]]

\* the patched calculator raised RuntimeError and the request was answered
C9_Witness ==
    /\ UnexpectedFault
    /\ call[1].out.exc[1].cls = "RuntimeError"
    /\ pc = "done"
    /\ response[1].status_code = 400

\* the core function the operation names, applied to (a, b)
SelectedFunction(op, a, b, p) ==
    CASE op = "add" -> add(a, b, p)
      [] op = "subtract" -> subtract(a, b, p)
      [] op = "multiply" -> multiply(a, b, p)
      [] op = "divide" -> divide(a, b, p)

\* C10: for every request that passes validation and whose calculation
\* succeeds, the response has status 200, its operation is the requested
\* one, its operands are [a, b] in request order, and its result is the
\* value the core function selected by the operation returns for (a, b).
C10_SuccessResponse ==
    (pc = "done" /\ request # None /\ call # None /\ ~call[1].out.raised) =>
        LET r == SelectedFunction(request[1].operation, request[1].a,
                                  request[1].b, prec)
        IN  /\ ~r.raised
            /\ response[1] =
                   [status_code |-> 200,
                    content |-> [result    |-> r.value[1],
                                 operation |-> body[1].operation[1],
                                 operands  |-> <<request[1].a, request[1].b>>]]

\* a subtraction of two different operands was answered with status 200
C10_Witness ==
    /\ pc = "done"
    /\ request # None
    /\ request[1].operation = "subtract"
    /\ ~DecEq(request[1].a, request[1].b)
    /\ ~DecIsZero(request[1].b)
    /\ response[1].status_code = 200

\* the request was answered with a success response
Succeeded == response # None /\ response[1].status_code = 200

\* C11: every success response, after any request that passed validation,
\* carries a result whose magnitude is at most 10^10, in the response model
\* and in the JSON written to the client.
C11_ResultWithinBound ==
    Succeeded =>
        /\ request # None
        /\ ~ExceedsBound(response[1].content.result)
        /\ DecLe(DecAbs(response[1].content.result, prec), MAX_ABS_OPERAND)
        /\ ~ExceedsBound(ToDecimal(wire[1].result).value[1])

\* a multiplication was answered with a result of exactly 10^10
C11_Witness ==
    /\ Succeeded
    /\ request[1].operation = "multiply"
    /\ ~DecEq(request[1].a, request[1].b)
    /\ DecEq(response[1].content.result, MAX_ABS_OPERAND)

ExactProduct(x, y) ==
    Dec(IF x.sign = y.sign THEN 0 ELSE 1, NatMul(x.digits, y.digits),
        x.exp + y.exp)

\* |a - q * b|, the distance of q * b from a, in full
Residue(a, b, q) ==
    LET d == ExactSum(a, CopyNegate(ExactProduct(q, b)))
    IN  Dec(0, d.digits, d.exp)

\* q is a / b rounded half-even to p significant digits: q has no more than
\* p digits and is the quotient itself, or has exactly p digits and lies
\* within half a unit of its last digit of the quotient, the last digit
\* being even when it lies exactly half a unit away
RoundedQuotient(a, b, q, p) ==
    LET twice == ExactProduct(Residue(a, b, q), Dec(0, <<2>>, 0))
        unit  == Dec(0, b.digits, b.exp + q.exp)
    IN  /\ Len(q.digits) <= p
        /\ \/ DecIsZero(twice)
           \/ /\ Len(q.digits) = p
              /\ DecLe(twice, unit)
              /\ DecEq(twice, unit) => q.digits[p] % 2 = 0

\* divide was called with a divisor that is not zero and returned
DivideReturned ==
    /\ call # None
    /\ call[1].op = "divide"
    /\ ~call[1].out.raised

Threes28 == [i \in 1..28 |-> 3]

DecimalString(j) == j.type = "str" /\ ParseDecimal(j.text).status = "ok"

\* C14: in a success response the result and both operands are serialized
\* as decimal strings, never as JSON numbers; parsing the serialized
\* response back yields the same operation, the same two operands and the
\* same result (sign, digits and exponent), and serializing that again gives
\* identical strings.
C14_LosslessRoundTrip ==
    Succeeded =>
        /\ DecimalString(wire[1].result)
        /\ Len(wire[1].operands) = 2
        /\ \A i \in 1..2 : DecimalString(wire[1].operands[i])
        /\ wire[1].operation = response[1].content.operation
        /\ model_validate_json(wire[1]) = response[1].content
        /\ model_dump_json(model_validate_json(wire[1])) = wire[1]

\* a success response whose result was written with an exponent and one of
\* whose operands is a negative zero with a fraction digit
C14_Witness ==
    /\ Succeeded
    /\ \E i \in 1..Len(wire[1].result.text) : wire[1].result.text[i] = "E"
    /\ \E i \in 1..2 : wire[1].operands[i].text = <<"-", "0", ".", "0">>
    /\ response[1].content.result.exp < -6

\* the requests in flight: the one running and the ones suspended
Tasks == {Task} \cup {suspended[i] : i \in 1..Len(suspended)}

\* what has been answered so far: the results collected and the responses
\* of the requests in flight that are answered
Answered ==
    results \cup {Result(t.body[1], t.response[1].status_code, t.wire[1]) :
                     t \in {u \in Tasks : u.pc = "done"}}

\* C15: the response to a request is a function of its operation and
\* operands only: after any sequence of earlier requests, successful or
\* failing, two requests with the same operation and operands get the same
\* status and the same body.
C15_SameRequestSameResponse ==
    \A r1, r2 \in Answered :
        r1.request_data = r2.request_data =>
            /\ r1.status_code = r2.status_code
            /\ r1.response_data = r2.response_data

\* after a request that failed and one that succeeded were served, the
\* second one was posted again and answered
C15_Witness ==
    /\ served = 2
    /\ pc = "done"
    /\ \E r \in results : r.status_code = 400
    /\ \E r \in results :
          /\ r.request_data = body[1]
          /\ r.status_code = 200
          /\ r.response_data = wire[1]

\* the answer is the one the request gets when handled alone: the issues of
\* its own body, the error of its own calculation, or its own operation and
\* operands with the result of the function its operation names
OwnResponse(r) ==
    IF ValidationIssues(r.request_data, Prec) # <<>>
    THEN /\ r.status_code = 422
         /\ r.response_data =
                [detail |-> ValidationIssues(r.request_data, Prec)]
    ELSE LET req == CalculationRequest(r.request_data)
             out == SelectedFunction(req.operation, req.a, req.b, Prec)
         IN  IF out.raised
             THEN /\ r.status_code = 400
                  /\ r.response_data = [detail |-> out.exc[1].detail]
             ELSE /\ r.status_code = 200
                  /\ r.response_data =
                         [result    |-> JSONString(Str(out.value[1])),
                          operation |-> r.request_data.operation[1],
                          operands  |-> <<JSONString(Str(req.a)),
                                          JSONString(Str(req.b))>>]

\* C16: when several requests are in flight at once, under every
\* interleaving each request receives the response it would receive if
\* handled alone: its own operation and operands echoed back and its own
\* result; the request validated and the call made for it hold its own
\* operands at every step.
C16_IndependentRequests ==
    /\ \A r \in Answered : OwnResponse(r)
    /\ \A t \in Tasks :
          /\ t.request # None =>
                 t.request[1] = CalculationRequest(t.body[1])
          /\ t.call # None =>
                 t.call[1].a = t.request[1].a /\ t.call[1].b = t.request[1].b

\* two different requests were in flight at once, the one validated before
\* the other arrived, and both have been answered with status 200
C16_Witness ==
    /\ pc = "done"
    /\ response[1].status_code = 200
    /\ Len(suspended) = 1
    /\ suspended[1].pc = "done"
    /\ suspended[1].response[1].status_code = 200
    /\ suspended[1].body # body
    /\ OwnResponse(Result(body[1], response[1].status_code, wire[1]))

\* the body violates validation, read off the body itself: the operation is
\* missing or not one of the four, or an operand is missing, not a finite
\* number, or outside [-10^10, 10^10]
BadOperand(f) ==
    \/ f = None
    \/ ToDecimal(f[1]).status # "ok"
    \/ ExceedsBound(ToDecimal(f[1]).value[1])

ViolatesValidation(b) ==
    \/ b.operation = None
    \/ b.operation[1] \notin {"add", "subtract", "multiply", "divide"}
    \/ BadOperand(b.a)
    \/ BadOperand(b.b)

\* C17: structural validation always happens before arithmetic: while a
\* request that violates validation is being served no request object is
\* built, no core function is invoked and no service error is raised, and
\* its response is the structural error 422, even when the same request
\* would also cause a business-rule error (divide with b = 0 and
\* a = 10^10 + 1 yields 422, not 400).
C17_ValidationFirst ==
    (body # None /\ ViolatesValidation(body[1])) =>
        /\ pc \in {"received", "done"}
        /\ request = None
        /\ call = None
        /\ exc = None
        /\ pc = "done" =>
               /\ response # None
               /\ response[1].status_code = 422
               /\ wire[1] = response[1].content
               /\ Len(response[1].content.detail) > 0

\* divide with a = 10^10 + 1 and b = 0 was answered 422 with the one issue
\* naming a
C17_Witness ==
    /\ pc = "done"
    /\ body = Some(Body(Some("divide"), StrOperand(TenTo10Plus1Text),
                        StrOperand(<<"0">>)))
    /\ response[1].status_code = 422
    /\ Len(response[1].content.detail) = 1
    /\ response[1].content.detail[1].loc = <<"body", "a">>
    /\ call = None

\* the request ended in a success payload
EndedInSuccess ==
    /\ response[1].status_code = 200
    /\ DOMAIN wire[1] = {"result", "operation", "operands"}

\* the request ended in a classified error payload: structural (422) or
\* business-rule (400)
EndedInError ==
    /\ response[1].status_code \in {422, 400}
    /\ DOMAIN wire[1] = {"detail"}
    /\ response[1].status_code = 422 <=> request = None
    /\ response[1].status_code = 400 <=> exc # None

\* a request being served has one of the two outcomes once it is done, and
\* none before
OneOutcome ==
    /\ pc = "done" =>
           /\ response # None /\ wire # None
           /\ EndedInSuccess \/ EndedInError
           /\ ~(EndedInSuccess /\ EndedInError)
    /\ pc \in {"received", "validated", "raised"} =>
           response = None /\ wire = None

\* the steps a request takes: validate, compute, respond, each at most
\* once and never back
LinearPass ==
    <<pc, pc'>> \in {<<"idle", "received">>, <<"received", "validated">>,
                     <<"received", "done">>, <<"validated", "done">>,
                     <<"validated", "raised">>, <<"raised", "done">>,
                     <<"done", "idle">>}

\* C18: every request is processed in a single linear pass (validate,
\* compute, respond) with no retry and no intermediate resting state, and
\* eventually ends in exactly one of two terminal outcomes: a success
\* payload, or a classified error payload (structural 422 or business-rule
\* 400); never both and never neither.
C18_OnePassOneOutcome ==
    /\ []OneOutcome
    /\ [][LinearPass]_vars
    /\ (pc \in {"received", "validated", "raised"}) ~> (pc = "done")

\* a request whose calculation raised has ended in an error payload
C18_Witness ==
    /\ pc = "done"
    /\ request # None
    /\ exc # None
    /\ EndedInError
    /\ ~EndedInSuccess

\* C19: the decimal precision is set once at process start to at least 28
\* significant digits, and no request (successful, failing with a
\* business-rule error, or failing validation) changes it: after any
\* sequence of requests the precision in effect for the next calculation is
\* still the start-up value.
C19_PrecisionFixed ==
    /\ [](prec = Prec /\ prec >= 28)
    /\ [][prec' = prec]_vars

\* after a request was served, a division was computed to the 28 digits of
\* the start-up precision
C19_Witness ==
    /\ served > 0
    /\ prec = Prec
    /\ call # None
    /\ call[1].op = "divide"
    /\ ~call[1].out.raised
    /\ Len(call[1].out.value[1].digits) = 28

\* r is the sum s rounded half-even to p significant digits: s itself when
\* s has no more than p digits, else p digits within half a unit of the last
\* one of s, the last digit even when s lies exactly half a unit away
RoundedSum(s, r, p) ==
    LET d     == ExactSum(s, CopyNegate(r))
        twice == ExactProduct(Dec(0, d.digits, d.exp), Dec(0, <<2>>, 0))
        unit  == Dec(0, <<1>>, r.exp)
    IN  IF Len(s.digits) <= p
        THEN DecIsZero(twice) /\ r.exp = s.exp
        ELSE /\ Len(r.digits) = p
             /\ DecLe(twice, unit)
             /\ DecEq(twice, unit) => r.digits[p] % 2 = 0

\* add was called and returned
AddReturned ==
    /\ call # None
    /\ call[1].op = "add"
    /\ ~call[1].out.raised

\* C20: add returns the sum rounded to 28 significant digits when the exact
\* sum needs more, and sums that fit in 28 significant digits exactly:
\* add(123.123456789012345678901234567, 456.987654321098765432109876543) is
\* 580.1111111101111111110111111, 0.1 + 0.2 is 0.3 and 1e-25 + 1e-25 is
\* 2e-25.
C20_AddRoundsTo28 ==
    AddReturned =>
        /\ RoundedSum(ExactSum(call[1].a, call[1].b), call[1].out.value[1],
                      28)
        /\ (call[1].a = ParseDecimal(LongA).value[1]
            /\ call[1].b = ParseDecimal(LongB).value[1]) =>
               call[1].out.value[1] =
                   Dec(0, <<5, 8, 0, 1, 1, 1, 1, 1, 1, 1, 1, 0, 1, 1, 1, 1, 1,
                            1, 1, 1, 1, 0, 1, 1, 1, 1, 1, 1>>, -25)
        /\ (call[1].a = Dec(0, <<1>>, -1) /\ call[1].b = Dec(0, <<2>>, -1)) =>
               call[1].out.value[1] = Dec(0, <<3>>, -1)
        /\ (call[1].a = Dec(0, <<1>>, -25) /\ call[1].b = Dec(0, <<1>>, -25)) =>
               call[1].out.value[1] = Dec(0, <<2>>, -25)

\* a sum of 30 digits was returned with 28, the last one rounded up
C20_Witness ==
    /\ AddReturned
    /\ Len(ExactSum(call[1].a, call[1].b).digits) = 30
    /\ Len(call[1].out.value[1].digits) = 28
    /\ DecGt(Dec(0, call[1].out.value[1].digits, call[1].out.value[1].exp),
             Dec(0, ExactSum(call[1].a, call[1].b).digits,
                 ExactSum(call[1].a, call[1].b).exp))

\* C21: the operands echoed in a success response are exactly the values
\* supplied in the request, every digit preserved and none rounded to the
\* 28-digit precision, even when an operand has more than 28 significant
\* digits and the result itself is rounded.
C21_OperandsEchoedInFull ==
    (Succeeded /\ route = "calculate") =>
        /\ \A i \in 1..2 :
              LET sent == ToDecimal(body[1][<<"a", "b">>[i]][1]).value[1]
              IN  /\ response[1].content.operands[i] = sent
                  /\ ParseDecimal(wire[1].operands[i].text).value[1] = sent
                  /\ Len(wire[1].operands[i].text)
                         >= Len(sent.digits) + sent.sign
        /\ body[1].a = StrOperand(LongA) => wire[1].operands[1].text = LongA
        /\ body[1].b = StrOperand(LongB) => wire[1].operands[2].text = LongB

\* a sum of two operands of 30 digits was answered with both operands in
\* full and a result of 28 digits
C21_Witness ==
    /\ Succeeded
    /\ wire[1].operands[1].text = LongA
    /\ wire[1].operands[2].text = LongB
    /\ Len(response[1].content.operands[1].digits) = 30
    /\ Len(response[1].content.result.digits) = 28

\* C22: an error response never carries a result: when the calculation
\* fails with division by zero, overflow or an unexpected fault, the body
\* is the detail message alone, with no result, operation or operands, and
\* the value that overflowed appears nowhere in it.
C22_NoResultInError ==
    (route = "calculate" /\ ErrorAnswered) =>
        /\ DOMAIN response[1].content = {"detail"}
        /\ DOMAIN wire[1] = {"detail"}
        /\ wire[1].detail \in
               {"Division by zero is not allowed",
                "Calculation result exceeds supported range",
                "An unexpected error occurred during calculation"}
        /\ response[1].status_code # HTTP_200_OK

\* the product of 10^10 and 10^10 overflowed and the answer is the message
\* alone
C22_Witness ==
    /\ route = "calculate"
    /\ ErrorAnswered
    /\ call # None
    /\ call[1].op = "multiply"
    /\ IsOverflow(call[1].out)
    /\ wire[1] = [detail |-> "Calculation result exceeds supported range"]

\* the calculate handler called a core function, which raised one of the
\* two errors the core functions raise
CoreErrorInHandler ==
    /\ route = "calculate"
    /\ call # None
    /\ call[1].out.raised
    /\ call[1].out.exc[1].cls \in {"DivisionByZeroError",
                                   "CalculationOverflowError"}

\* C23: a DivisionByZero or CalculationOverflow error raised by a core
\* function passes through the calculate handler unchanged (same kind, same
\* status, same message); it is never re-classified as UnsupportedOperation
\* and never given the fallback message.
C23_CoreErrorsPassThrough ==
    CoreErrorInHandler =>
        /\ exc = call[1].out.exc
        /\ exc[1].cls # "UnsupportedOperationError"
        /\ exc[1].detail # "An unexpected error occurred during calculation"
        /\ exc[1].cls = "DivisionByZeroError" =>
               /\ exc[1].detail = "Division by zero is not allowed"
               /\ exc[1].status_code = 400
        /\ exc[1].cls = "CalculationOverflowError" =>
               /\ exc[1].detail = "Calculation result exceeds supported range"
               /\ exc[1].status_code = 400
        /\ response # None =>
               response[1] = [status_code |-> call[1].out.exc[1].status_code,
                              content |->
                                  [detail |-> call[1].out.exc[1].detail]]

\* a division by zero raised by divide was answered as a division by zero
C23_Witness ==
    /\ CoreErrorInHandler
    /\ call[1].op = "divide"
    /\ exc[1].cls = "DivisionByZeroError"
    /\ response # None
    /\ response[1].content.detail = "Division by zero is not allowed"

\* a core function was called directly with an operand beyond 10^10, and
\* computed a result
OutOfRangeCall ==
    /\ route = "none"
    /\ ComputingCall
    /\ ExceedsBound(call[1].a) \/ ExceedsBound(call[1].b)

TenTo10Plus(n) == Dec(0, <<1, 0, 0, 0, 0, 0, 0, 0, 0, 0, n>>, 0)

\* C24: the core functions test only the magnitude of the result, never the
\* operands: called directly with an operand beyond the validated range, a
\* function returns its result whenever the result's magnitude is at most
\* 10^10 (add(10^10 + 5, -10) returns 9999999995) and raises the overflow
\* error only when the result's magnitude exceeds 10^10 (add(10^10 + 1, 0)).
C24_OnlyResultChecked ==
    OutOfRangeCall =>
        LET c == call[1]
            r == Computed(c.op, c.a, c.b, prec)
        IN  /\ ~ExceedsBound(r) => c.out = Return(r)
            /\ c.out.raised => (ExceedsBound(r) /\ IsOverflow(c.out))
            /\ (c.op = "add" /\ c.a = TenTo10Plus(5) /\ c.b = Dec(1, <<1, 0>>, 0))
                  => c.out = Return(Dec(0, <<9, 9, 9, 9, 9, 9, 9, 9, 9, 5>>, 0))
            /\ (c.op = "add" /\ c.a = TenTo10Plus(1) /\ DecIsZero(c.b))
                  => IsOverflow(c.out)

\* add(10^10 + 5, -10) returned 9999999995
C24_Witness ==
    /\ OutOfRangeCall
    /\ call[1].op = "add"
    /\ call[1].a = TenTo10Plus(5)
    /\ call[1].b = Dec(1, <<1, 0>>, 0)
    /\ call[1].out = Return(Dec(0, <<9, 9, 9, 9, 9, 9, 9, 9, 9, 5>>, 0))

\* an error was constructed directly
Constructed == call # None /\ call[1].op = "__init__"

\* C25: constructing any error kind with no detail (or None) and no status
\* code yields the default message of its class and status 400; an explicit
\* detail, status code or headers replaces the default for that field only.
C25_ConstructorDefaults ==
    Constructed =>
        LET k == call[1].args
            e == call[1].out.value[1]
        IN  /\ ~call[1].out.raised
            /\ e.cls = k.cls
            /\ k.detail = None =>
                  e.detail =
                      CASE k.cls = "ArithmeticServiceError" ->
                               "Arithmetic service error"
                        [] k.cls = "DivisionByZeroError" ->
                               "Division by zero is not allowed"
                        [] k.cls = "CalculationOverflowError" ->
                               "Calculation result exceeds supported range"
                        [] k.cls = "UnsupportedOperationError" ->
                               "Unsupported operation"
            /\ k.detail # None => e.detail = k.detail[1]
            /\ k.status_code = None => e.status_code = 400
            /\ k.status_code # None => e.status_code = k.status_code[1]
            /\ e.headers = k.headers

\* a CalculationOverflowError constructed with a status code alone has that
\* status, the message of its class and no headers
C25_Witness ==
    /\ Constructed
    /\ call[1].args = [cls |-> "CalculationOverflowError", detail |-> None,
                       status_code |-> Some(503), headers |-> None]
    /\ call[1].out.value[1].status_code = 503
    /\ call[1].out.value[1].detail =
           "Calculation result exceeds supported range"
    /\ call[1].out.value[1].headers = None

\* C26: the exception handler is a pure mapping: for every service error
\* that reaches it, whatever its status (409, 422, 503, ...) and detail, the
\* response status is the error's status and the body is exactly
\* {detail: the error's detail}; handling changes nothing else.
C26_HandlerPureMapping ==
    [][pc = "raised" =>
          /\ response' = Some([status_code |-> exc[1].status_code,
                               content |-> [detail |-> exc[1].detail]])
          /\ wire' = Some([detail |-> exc[1].detail])
          /\ UNCHANGED <<prec, route, body, request, exc, call, served,
                         results>>]_vars

\* a route raised an error with status 503 and a detail of its own, and the
\* answer carries both
C26_Witness ==
    /\ pc = "done"
    /\ route = "other"
    /\ exc[1].status_code = 503
    /\ exc[1].detail = "Formatted error message"
    /\ response[1] = [status_code |-> 503,
                      content |-> [detail |-> "Formatted error message"]]

\* the message of the handler's own unsupported-operation branch
UnsupportedMessages ==
    {"Unsupported operation: " \o op :
         op \in OperationType \cup {"power", "ADD", ""}}

\* C27: for every validated request the operation is found in the dispatch
\* table, so the handler's unsupported-operation branch is never taken and
\* no response carries "Unsupported operation: <operation>"; the only 400
\* messages /calculate produces are those of division by zero, of overflow
\* and the fallback.
C27_UnsupportedBranchDead ==
    /\ (route = "calculate" /\ request # None) =>
           /\ request[1].operation \in DOMAIN operation_map
           /\ pc \in {"raised", "done"} => call # None
    /\ (route = "calculate" /\ exc # None) =>
           /\ exc[1].detail \notin UnsupportedMessages
           /\ exc[1].detail # "Unsupported operation"
           /\ exc[1].status_code = 400 =>
                  exc[1].detail \in
                      {"Division by zero is not allowed",
                       "Calculation result exceeds supported range",
                       "An unexpected error occurred during calculation"}
    /\ (route = "calculate" /\ response # None
            /\ response[1].status_code = 400) =>
           /\ response[1].content.detail \notin UnsupportedMessages
           /\ response[1].content.detail \in
                  {"Division by zero is not allowed",
                   "Calculation result exceeds supported range",
                   "An unexpected error occurred during calculation"}

\* a validated divide request, its function found in the table and patched
\* to raise, was answered with the fallback message
C27_Witness ==
    /\ route = "calculate"
    /\ pc = "done"
    /\ request # None
    /\ request[1].operation = "divide"
    /\ call # None
    /\ response[1].status_code = 400
    /\ response[1].content.detail =
           "An unexpected error occurred during calculation"

\* add or multiply was called with both operands within the validated range
SumOrProductInRange ==
    /\ call # None
    /\ call[1].op \in {"add", "multiply"}
    /\ ~ExceedsBound(call[1].a)
    /\ ~ExceedsBound(call[1].b)

\* the mathematical result of the call in full
ExactResult ==
    IF call[1].op = "add" THEN ExactSum(call[1].a, call[1].b)
    ELSE ExactProduct(call[1].a, call[1].b)

\* C28: the overflow test is applied to the result after rounding to 28
\* significant digits: for validated operands whose exact sum or product
\* exceeds 10^10 by less than the rounding resolution (add(10^10, 1e-20)),
\* the operation rounds to exactly 10^10 and returns it as a success.
C28_OverflowTestAfterRounding ==
    SumOrProductInRange =>
        LET exact   == ExactResult
            rounded == Fix(exact, prec)
        IN  /\ call[1].out.raised <=> ExceedsBound(rounded)
            /\ (ExceedsBound(exact) /\ ~ExceedsBound(rounded)) =>
                  /\ call[1].out = Return(rounded)
                  /\ DecEq(DecAbs(call[1].out.value[1], prec),
                           MAX_ABS_OPERAND)
            /\ (call[1].op = "add" /\ call[1].a = MAX_ABS_OPERAND
                    /\ call[1].b = Dec(0, <<1>>, -20)) =>
                  /\ ~call[1].out.raised
                  /\ DecEq(call[1].out.value[1], MAX_ABS_OPERAND)

\* 10^10 times 1 + 10^-29, whose product in full is beyond 10^10, returned
\* 10^10
C28_Witness ==
    /\ SumOrProductInRange
    /\ call[1].op = "multiply"
    /\ ExceedsBound(ExactResult)
    /\ ~call[1].out.raised
    /\ DecEq(call[1].out.value[1], MAX_ABS_OPERAND)
    /\ response # None
    /\ response[1].status_code = 200

\* add or multiply was called, by the handler or directly
SumOrProductCall == call # None /\ call[1].op \in {"add", "multiply"}

\* C29: add and multiply are commutative in value and in outcome: for all
\* operands add(a, b) and add(b, a), and multiply(a, b) and multiply(b, a),
\* either both return equal results or both raise the overflow error.
C29_Commutative ==
    SumOrProductCall =>
        LET c        == call[1]
            reversed == CallCalculator(c.op, c.b, c.a, prec)
        IN  /\ c.out.raised <=> reversed.raised
            /\ c.out.raised => (IsOverflow(c.out) /\ IsOverflow(reversed))
            /\ ~c.out.raised =>
                  /\ DecEq(c.out.value[1], reversed.value[1])
                  /\ c.out.value[1] = reversed.value[1]

\* the product of two different operands of 30 digits, rounded to 28, is the
\* product of the two taken in the other order
C29_Witness ==
    /\ SumOrProductCall
    /\ call[1].op = "multiply"
    /\ call[1].a # call[1].b
    /\ Len(call[1].a.digits) = 30
    /\ Len(call[1].b.digits) = 30
    /\ ~call[1].out.raised
    /\ Len(call[1].out.value[1].digits) = 28
    /\ call[1].out = multiply(call[1].b, call[1].a, prec)

\* divide was called with both operands within the validated range
DivideCallInRange ==
    /\ call # None
    /\ call[1].op = "divide"
    /\ ~ExceedsBound(call[1].a)
    /\ ~ExceedsBound(call[1].b)

\* |x| >= 1
AtLeastOne(x) == ~DecIsZero(x) /\ Adjusted(x) >= 0

\* |x|
Magnitude(x) == Dec(0, x.digits, x.exp)

\* C30 as stated: for validated operands divide(a, b) can fail with overflow
\* only when 0 < |b| < 1; whenever |b| >= 1 the call succeeds with a result
\* of magnitude at most |a|, rounding included.
C30_QuotientAtMostDividend ==
    DivideCallInRange =>
        /\ IsOverflow(call[1].out) =>
               (~DecIsZero(call[1].b) /\ ~AtLeastOne(call[1].b))
        /\ AtLeastOne(call[1].b) =>
               /\ ~call[1].out.raised
               /\ DecLe(Magnitude(call[1].out.value[1]),
                        Magnitude(call[1].a))

\* C30 amended: for validated operands divide(a, b) can fail with overflow
\* only when 0 < |b| < 1; whenever |b| >= 1 the call succeeds with a result
\* of magnitude at most |a| rounded to the 28 significant digits of the
\* context, hence at most 10^10.
C30_QuotientAtMostRoundedDividend ==
    DivideCallInRange =>
        /\ IsOverflow(call[1].out) =>
               (~DecIsZero(call[1].b) /\ ~AtLeastOne(call[1].b))
        /\ AtLeastOne(call[1].b) =>
               /\ ~call[1].out.raised
               /\ DecLe(Magnitude(call[1].out.value[1]),
                        Fix(Magnitude(call[1].a), prec))
               /\ ~ExceedsBound(call[1].out.value[1])

\* a dividend of 30 digits divided by 1 returned a value of 28 digits that
\* is greater than the dividend
C30_Witness ==
    /\ DivideCallInRange
    /\ AtLeastOne(call[1].b)
    /\ Len(call[1].a.digits) = 30
    /\ ~call[1].out.raised
    /\ DecGt(Magnitude(call[1].out.value[1]), Magnitude(call[1].a))
    /\ DecEq(Magnitude(call[1].out.value[1]), Fix(Magnitude(call[1].a), prec))
====
